---- MODULE Spec2Model ----
(***************************************************************************)
(* hockeypi: the on-disk request cache (hockeypi/cache.py).                *)
(*                                                                         *)
(* make_request(url, overwrite, verbose) serves a url from cache/<key>.json*)
(* when that file exists and overwrite is off, and otherwise fetches it,   *)
(* writes the file and returns the fetched data.  encode_url turns a url   *)
(* into the file name.                                                     *)
(*                                                                         *)
(* Strings are sequences of one-character strings.  A file's bytes are a   *)
(* sequence of JSON tokens.  The remote API is the environment: each fetch *)
(* gets an outcome chosen by \E (some data, or an exception).              *)
(***************************************************************************)
EXTENDS Integers, Sequences, FiniteSets, TLC

VARIABLES
  cache_dir,   \* os.path.exists('cache/')
  cache,       \* filename -> the file at that path
  last,        \* the make_request call that ran last, and how it ended
  twin,        \* how that call ends from the same state with verbose flipped
  watch,       \* the url whose history the next four variables record
  fetches,     \* fetches invoked by its calls with overwrite=False
  fetched_ok,  \* those of them that returned data
  miss,        \* the data its populating (miss) call fetched
  replaced,    \* an overwrite=True call rewrote its file since then
  enc,         \* encode_url applied to a pair of strings
  proc,        \* caller -> its make_request call in progress, line by line
  hist,        \* the files the concurrent calls started from, the last writer
  pl           \* the call of a players.py function that ran last

vars == <<cache_dir, cache, last, twin, watch, fetches, fetched_ok, miss, replaced, enc, proc, hist, pl>>

-----------------------------------------------------------------------------
(* Bounds *)

MaxLen == 2       \* longest enumerated input string of encode_url
MaxItems == 1     \* longest JSON array the remote serves
MaxFetches == 2   \* cap of the per-url fetch counters

-----------------------------------------------------------------------------
(* encode_url, cache.py:39-53 *)

Reserved == {":", "/", "?"}

encoding_dict ==
  (":" :> ";") @@ ("/" :> "#") @@ ("?" :> "$")

\* encode_char with '?' missing from the dictionary
encode_char_no_query(char) ==
  IF char \in {":", "/"} THEN encoding_dict[char] ELSE char

\* the loop body, cache.py:49-52
encode_char(char) ==
  IF char \in DOMAIN encoding_dict THEN encoding_dict[char] ELSE char

RECURSIVE encode_loop(_, _, _)
\* for char in url: encoded_url += ...   (i is the loop position)
encode_loop(url, i, encoded_url) ==
  IF i > Len(url) THEN encoded_url
  ELSE encode_loop(url, i + 1, Append(encoded_url, encode_char(url[i])))

encode_url(url) == encode_loop(url, 1, <<>>)

-----------------------------------------------------------------------------
(* Inputs of encode_url *)

Alphabet == {":", "/", "?", ";", "#", "$", "a"}

Strings == UNION {[1..n -> Alphabet] : n \in 0..MaxLen}

\* "http://x?a:b"
ExampleUrl == <<"h", "t", "t", "p", ":", "/", "/", "x", "?", "a", ":", "b">>
\* "http;##x$a;b"
ExampleKey == <<"h", "t", "t", "p", ";", "#", "#", "x", "$", "a", ";", "b">>

EncIdle == [a |-> <<>>, b |-> <<>>, done |-> FALSE, ea |-> <<>>, eb |-> <<>>]

-----------------------------------------------------------------------------
(* JSON text: json.dump / json.load, cache.py:24 and cache.py:36 *)

\* The payloads the remote API serves: JSON arrays [], [1], [1,2], ...
Data == {[i \in 1..n |-> i] : n \in 0..MaxItems}

RECURSIVE dump_items(_, _)
\* the items of array data from position i on, comma separated
dump_items(data, i) ==
  IF i > Len(data) THEN <<>>
  ELSE IF i = Len(data) THEN <<ToString(data[i])>>
  ELSE <<ToString(data[i]), ",">> \o dump_items(data, i + 1)

\* json_dump without the closing bracket
json_dump_unclosed(data) == <<"[">> \o dump_items(data, 1)

\* json.dump(response, f): the text written for data
json_dump(data) == <<"[">> \o dump_items(data, 1) \o <<"]">>

NumberTokens == {ToString(n) : n \in 1..MaxItems}

token_value(tok) == CHOOSE n \in 1..MaxItems : ToString(n) = tok

ParseError == [ok |-> FALSE, val |-> <<>>]

RECURSIVE parse_items(_, _, _)
\* text[i] starts an item of an array whose earlier items are acc
parse_items(text, i, acc) ==
  IF i + 1 > Len(text) \/ text[i] \notin NumberTokens THEN ParseError
  ELSE IF text[i + 1] = "]"
    THEN IF i + 1 = Len(text)
           THEN [ok |-> TRUE, val |-> Append(acc, token_value(text[i]))]
           ELSE ParseError
  ELSE IF text[i + 1] = ","
    THEN parse_items(text, i + 2, Append(acc, token_value(text[i])))
  ELSE ParseError

\* json.load(f): the value the text denotes, or JSONDecodeError (ok = FALSE)
json_load(text) ==
  IF Len(text) < 2 \/ text[1] # "[" THEN ParseError
  ELSE IF text[2] = "]"
    THEN IF Len(text) = 2 THEN [ok |-> TRUE, val |-> <<>>] ELSE ParseError
  ELSE parse_items(text, 2, <<>>)

-----------------------------------------------------------------------------
(* Files under cache/ *)

NoFile == [exists |-> FALSE, bytes |-> <<>>]

File(bytes) == [exists |-> TRUE, bytes |-> bytes]

\* A write cut short (the process killed after open(filename, 'w')) leaves a
\* proper prefix of the text: an empty or truncated file.
TruncatedTexts ==
  UNION {{SubSeq(json_dump(d), 1, n) : n \in 0..(Len(json_dump(d)) - 1)} :
           d \in Data}

\* What a path of the cache directory can hold before the first call: no
\* file, or the remains of a write cut short.  Complete entries are written
\* by the calls themselves.
EntryFiles == {NoFile} \cup {File(t) : t \in TruncatedTexts}

\* What make_request finds at a path: no entry, an entry that parses, or one
\* that does not
file_kind(file) ==
  IF ~file.exists THEN "absent"
  ELSE IF json_load(file.bytes).ok THEN "parseable"
  ELSE "corrupt"

-----------------------------------------------------------------------------
(* The requests *)

\* "h:x" and "h;x" differ only in a reserved character and its substitute
URLs == {<<"h", ":", "x">>, <<"h", ";", "x">>, <<"h", "/", "y">>}

\* cache.py:13
filename(url) == <<"cache/">> \o encode_url(url) \o <<".json">>

Filenames == {filename(u) : u \in URLs}

\* requests.get(url).json(), cache.py:27: data, or an exception
FetchErrors == {"RequestException"}

\* the fetch returned data
Fetched(data) == [ok |-> TRUE, val |-> data, err |-> "none"]

\* the fetch raised err
Failed(err) == [ok |-> FALSE, val |-> <<>>, err |-> err]

Responses ==
  {Fetched(d) : d \in Data} \cup {Failed(e) : e \in FetchErrors}

Return(data) == [kind |-> "return", val |-> data, err |-> "none"]

Raise(err) == [kind |-> "raise", val |-> <<>>, err |-> err]

\* print(f'... {url}'), cache.py:22, 30, 32
Notice(text, url) == [text |-> text, url |-> url]

-----------------------------------------------------------------------------
(* make_request, cache.py:5-37 *)

\* os.path.isfile(filename), cache.py:20
isfile(dir, files, fn) == dir /\ files[fn].exists

\* ensure_dir without the os.makedirs call
ensure_dir_skip(dir) == dir

\* os.makedirs('cache/') when the directory is missing, cache.py:16-17
ensure_dir(dir) == IF ~dir THEN TRUE ELSE dir

\* write_entry with the file opened in append mode, open(filename, 'a')
write_entry_append(file, data) ==
  LET opened == File(file.bytes)
  IN  [opened EXCEPT !.bytes = @ \o json_dump(data)]

\* open(filename, 'w') truncates; json.dump writes the text, cache.py:35-36
write_entry(file, data) ==
  LET opened == File(<<>>)
  IN  [opened EXCEPT !.bytes = @ \o json_dump(data)]

\* hit_path returning the text of the file, f.read(), instead of json.load(f)
hit_path_raw(dir, files, fn, url, verbose) ==
  [cache_dir |-> dir,
   cache     |-> files,
   fetched   |-> 0,
   out       |-> IF verbose THEN <<Notice("Cache Hit", url)>> ELSE <<>>,
   ret       |-> Return(files[fn].bytes)]

\* cache.py:21-24: the notice, then the file is read and parsed
hit_path(dir, files, fn, url, verbose) ==
  LET loaded == json_load(files[fn].bytes)
  IN  [cache_dir |-> dir,
       cache     |-> files,
       fetched   |-> 0,
       out       |-> IF verbose THEN <<Notice("Cache Hit", url)>> ELSE <<>>,
       ret       |-> IF loaded.ok THEN Return(loaded.val)
                                  ELSE Raise("JSONDecodeError")]

\* fetch_path with the file opened for writing before the fetch:
\* with open(filename, 'w') as f: json.dump(requests.get(url).json(), f)
fetch_path_open_first(dir, files, fn, url, overwrite, verbose, response) ==
  IF ~response.ok
    THEN [cache_dir |-> dir,
          cache     |-> [files EXCEPT ![fn] = File(<<>>)],
          fetched   |-> 1,
          out       |-> <<>>,
          ret       |-> Raise(response.err)]
    ELSE [cache_dir |-> dir,
          cache     |-> [files EXCEPT ![fn] = write_entry(@, response.val)],
          fetched   |-> 1,
          out       |-> IF verbose
                          THEN IF overwrite
                                 THEN <<Notice("Overwriting cache", url)>>
                                 ELSE <<Notice("Cache Miss", url)>>
                          ELSE <<>>,
          ret       |-> Return(response.val)]

\* fetch_path removing the entry when the fetch fails
fetch_path_cleanup(dir, files, fn, url, overwrite, verbose, response) ==
  IF ~response.ok
    THEN [cache_dir |-> dir,
          cache     |-> [files EXCEPT ![fn] = NoFile],
          fetched   |-> 1,
          out       |-> <<>>,
          ret       |-> Raise(response.err)]
    ELSE [cache_dir |-> dir,
          cache     |-> [files EXCEPT ![fn] = write_entry(@, response.val)],
          fetched   |-> 1,
          out       |-> IF verbose
                          THEN IF overwrite
                                 THEN <<Notice("Overwriting cache", url)>>
                                 ELSE <<Notice("Cache Miss", url)>>
                          ELSE <<>>,
          ret       |-> Return(response.val)]

\* cache.py:27-37: fetch, the notice, the write, the return
fetch_path(dir, files, fn, url, overwrite, verbose, response) ==
  IF ~response.ok
    THEN [cache_dir |-> dir,
          cache     |-> files,
          fetched   |-> 1,
          out       |-> <<>>,
          ret       |-> Raise(response.err)]
    ELSE [cache_dir |-> dir,
          cache     |-> [files EXCEPT ![fn] = write_entry(@, response.val)],
          fetched   |-> 1,
          out       |-> IF verbose
                          THEN IF overwrite
                                 THEN <<Notice("Overwriting cache", url)>>
                                 ELSE <<Notice("Cache Miss", url)>>
                          ELSE <<>>,
          ret       |-> Return(response.val)]

\* cache_hit with the flag inverted: isfile(filename) and overwrite
cache_hit_inverted(dir, files, fn, overwrite) ==
  isfile(dir, files, fn) /\ overwrite

\* cache_hit that takes an entry it cannot parse for a miss
cache_hit_validating(dir, files, fn, overwrite) ==
  isfile(dir, files, fn) /\ ~overwrite /\ json_load(files[fn].bytes).ok

\* the branch of cache.py:20
cache_hit(dir, files, fn, overwrite) == isfile(dir, files, fn) /\ ~overwrite

\* make_request with the read and return of the hit indented under
\* "if verbose:", so that a quiet hit falls through to the fetch
make_request_quiet_refetch(dir, files, url, overwrite, verbose, response) ==
  LET fn   == filename(url)
      dir1 == ensure_dir(dir)
  IN  IF cache_hit(dir1, files, fn, overwrite) /\ verbose
        THEN hit_path(dir1, files, fn, url, verbose)
        ELSE fetch_path(dir1, files, fn, url, overwrite, verbose, response)

\* One call, from directory state dir and files; response is what the remote
\* answers if it is asked.
make_request(dir, files, url, overwrite, verbose, response) ==
  LET fn   == filename(url)
      dir1 == ensure_dir(dir)
  IN  IF cache_hit(dir1, files, fn, overwrite)
        THEN hit_path(dir1, files, fn, url, verbose)
        ELSE fetch_path(dir1, files, fn, url, overwrite, verbose, response)

-----------------------------------------------------------------------------
(* The cache as a state machine: calls of make_request, one after another *)

\* the response field of a call that did not ask the remote
NotAsked == [ok |-> FALSE, val |-> <<>>, err |-> "none"]

NoCall ==
  [called |-> FALSE, url |-> <<>>, overwrite |-> FALSE, verbose |-> FALSE,
   response |-> NotAsked,
   prior |-> "absent", made_dir |-> FALSE, fetched |-> 0, out |-> <<>>,
   ret |-> Raise("none")]

NoTwin == [cache_dir |-> FALSE, cache |-> <<>>, fetched |-> 0,
           ret |-> Raise("none")]

NoMiss == [set |-> FALSE, val |-> <<>>]

\* no concurrent callers
NoProcs == <<>>

NoHist == [old |-> <<>>, last_writer |-> "none"]

\* no players.py function has run
NoPlayerCall ==
  [op |-> "none", overwrite |-> FALSE, fetched |-> 0, ret |-> Raise("none"),
   fresh |-> Raise("none"), again |-> FALSE]

Init ==
  /\ cache_dir \in BOOLEAN
  /\ cache \in [Filenames -> EntryFiles]
  /\ ~cache_dir => \A fn \in Filenames : cache[fn] = NoFile
  /\ last = NoCall
  /\ twin = NoTwin
  /\ watch \in URLs
  /\ fetches = 0
  /\ fetched_ok = 0
  /\ miss = NoMiss
  /\ replaced = FALSE
  /\ enc = EncIdle
  /\ proc = NoProcs
  /\ hist = NoHist
  /\ pl = NoPlayerCall

MakeRequest(url, overwrite, verbose, response) ==
  \E r \in {make_request(cache_dir, cache, url, overwrite, verbose, response)},
     t \in {make_request(cache_dir, cache, url, overwrite, ~verbose, response)},
     fn \in {filename(url)} :
    LET asked   == r.fetched = 1
        counted == url = watch /\ ~overwrite /\ asked
    IN  /\ counted => fetches < MaxFetches
        /\ cache_dir' = r.cache_dir
        /\ cache' = r.cache
        /\ last' = [called |-> TRUE, url |-> url, overwrite |-> overwrite,
                    verbose |-> verbose,
                    response |-> IF asked THEN response ELSE NotAsked,
                    prior |-> file_kind(cache[fn]),
                    made_dir |-> ~cache_dir /\ r.cache_dir,
                    fetched |-> r.fetched, out |-> r.out,
                    ret |-> r.ret]
        /\ twin' = [cache_dir |-> t.cache_dir, cache |-> t.cache,
                    fetched |-> t.fetched, ret |-> t.ret]
        /\ watch' = watch
        /\ fetches' = IF counted THEN fetches + 1 ELSE fetches
        /\ fetched_ok' = IF counted /\ response.ok THEN fetched_ok + 1
                                                   ELSE fetched_ok
        /\ miss' = IF counted /\ response.ok /\ ~miss.set
                     THEN [set |-> TRUE, val |-> response.val]
                     ELSE miss
        /\ replaced' = IF overwrite /\ asked /\ response.ok
                          /\ fn = filename(watch)
                         THEN TRUE
                         ELSE replaced
        /\ enc' = enc
        /\ UNCHANGED <<proc, hist, pl>>

Next ==
  \E url \in URLs, overwrite \in BOOLEAN, verbose \in BOOLEAN,
     response \in Responses :
    MakeRequest(url, overwrite, verbose, response)

Spec == Init /\ [][Next]_vars

-----------------------------------------------------------------------------
(* encode_url on its own: every pair of input strings, encoded *)

EncInputs == Strings \cup {ExampleUrl}

InitEnc ==
  /\ cache_dir = FALSE
  /\ cache = [fn \in Filenames |-> NoFile]
  /\ last = NoCall
  /\ twin = NoTwin
  /\ watch = <<>>
  /\ fetches = 0
  /\ fetched_ok = 0
  /\ miss = NoMiss
  /\ replaced = FALSE
  /\ enc \in {[a |-> a, b |-> b, done |-> FALSE, ea |-> <<>>, eb |-> <<>>] :
                a \in EncInputs, b \in EncInputs}
  /\ proc = NoProcs
  /\ hist = NoHist
  /\ pl = NoPlayerCall

Encode ==
  /\ ~enc.done
  /\ enc' = [enc EXCEPT !.done = TRUE,
                        !.ea = encode_url(enc.a),
                        !.eb = encode_url(enc.b)]
  /\ UNCHANGED <<cache_dir, cache, last, twin, watch, fetches, fetched_ok,
                 miss, replaced, proc, hist, pl>>

NextEnc == Encode

SpecEnc == InitEnc /\ [][NextEnc]_vars

-----------------------------------------------------------------------------
(* Claims about encode_url *)

\* C7: encode_url(s) is defined for every string s, has the length of s, and
\* holds at each position ';' where s has ':', '#' where s has '/', '$' where
\* s has '?', and the character of s otherwise, so that no ':', '/' or '?'
\* is left; "http://x?a:b" becomes "http;##x$a;b".
C7_EncodeSubstitutes ==
  enc.done =>
    /\ Len(enc.ea) = Len(enc.a)
    /\ \A i \in 1..Len(enc.a) :
         /\ enc.a[i] = ":" => enc.ea[i] = ";"
         /\ enc.a[i] = "/" => enc.ea[i] = "#"
         /\ enc.a[i] = "?" => enc.ea[i] = "$"
         /\ enc.a[i] \notin Reserved => enc.ea[i] = enc.a[i]
         /\ enc.ea[i] \notin Reserved
    /\ enc.a = ExampleUrl => enc.ea = ExampleKey

C7_Witness ==
  /\ enc.done
  /\ enc.a = ExampleUrl
  /\ enc.ea = ExampleKey

\* a and b are equal except that at some positions one has ':', '/' or '?'
\* where the other has ';', '#' or '$' respectively
DifferBySubstitute(a, b) ==
  /\ Len(a) = Len(b)
  /\ a # b
  /\ \A i \in 1..Len(a) :
       \/ a[i] = b[i]
       \/ a[i] \in Reserved /\ b[i] = encoding_dict[a[i]]
       \/ b[i] \in Reserved /\ a[i] = encoding_dict[b[i]]

\* C8: two strings that differ only in a reserved character versus its
\* substitute have different cache keys.
C8_NoCollision ==
  (enc.done /\ DifferBySubstitute(enc.a, enc.b)) => enc.ea # enc.eb

-----------------------------------------------------------------------------
(* Claims about make_request.  In an action formula last' is the call the  *)
(* step makes, cache the files before it and cache' the files after it.    *)

\* the path of the call the step makes
CalledFile == filename(last'.url)

\* C1 as stated: over any sequence of make_request(u, overwrite=False) calls
\* the fetch for u is invoked at most once.
C1_AtMostOneFetch == fetches <= 1

\* C1, amended: over any sequence of make_request(u, overwrite=False) calls
\* the fetch for u returns data at most once, and once it has returned data
\* no later call of the sequence invokes it; it is invoked again only after
\* a fetch that failed.
C1_NoFetchAfterSuccess ==
  [][/\ fetches' # fetches => fetched_ok = 0
     /\ fetched_ok' <= 1]_vars

C1_Witness ==
  /\ fetches = 2
  /\ fetched_ok = 1
  /\ last.url = watch
  /\ ~last.overwrite
  /\ last.fetched = 0
  /\ last.ret.kind = "return"

\* C2: a make_request(u, overwrite=False) call that finds an entry holding
\* the text of data d returns d, invokes no fetch (whatever the remote would
\* have answered) and leaves every file as it was.
C2_HitReturnsStored ==
  [][(/\ ~last'.overwrite
      /\ isfile(cache_dir, cache, CalledFile)
      /\ file_kind(cache[CalledFile]) = "parseable")
       => /\ last'.fetched = 0
          /\ \E d \in Data :
               /\ cache[CalledFile] = File(json_dump(d))
               /\ last'.ret = Return(d)
          /\ cache' = cache]_vars

C2_Witness ==
  /\ last.called
  /\ ~last.overwrite
  /\ last.prior = "parseable"
  /\ last.fetched = 0
  /\ last.ret.kind = "return"
  /\ last.ret.val # <<>>

\* C3 as stated: a make_request(u, overwrite=False) call that finds no entry
\* invokes the fetch once, persists the fetched data under
\* cache/<encode_url(u)>.json and returns it, and every later
\* make_request(u, overwrite=False) call returns that data without a fetch.
C3_MissThenAlwaysSame ==
  [][/\ (~last'.overwrite /\ ~isfile(cache_dir, cache, CalledFile))
          => /\ last'.fetched = 1
             /\ \E d \in Data :
                  /\ last'.response = Fetched(d)
                  /\ cache'[CalledFile] = File(json_dump(d))
                  /\ last'.ret = Return(d)
     /\ (miss.set /\ last'.url = watch /\ ~last'.overwrite)
          => /\ last'.fetched = 0
             /\ last'.ret = Return(miss.val)]_vars

\* C3, amended: a make_request(u, overwrite=False) call that finds no entry
\* invokes the fetch once and, when the fetch returns data, persists the data
\* under cache/<encode_url(u)>.json and returns it; every later
\* make_request(u, overwrite=False) call made before an overwrite=True call
\* rewrites that file returns that data without a fetch.
C3_MissThenSameUntilOverwrite ==
  [][/\ (~last'.overwrite /\ ~isfile(cache_dir, cache, CalledFile))
          => /\ last'.fetched = 1
             /\ last'.response.ok
                  => /\ cache'[CalledFile] = File(json_dump(last'.response.val))
                     /\ last'.ret = Return(last'.response.val)
                     /\ cache_dir'
     /\ (miss.set /\ ~replaced /\ last'.url = watch /\ ~last'.overwrite)
          => /\ last'.fetched = 0
             /\ last'.ret = Return(miss.val)]_vars

C3_Witness ==
  /\ miss.set
  /\ miss.val # <<>>
  /\ ~replaced
  /\ last.url = watch
  /\ ~last.overwrite
  /\ last.prior = "parseable"
  /\ last.fetched = 0
  /\ last.ret = Return(miss.val)

\* C4 as stated: every make_request(u, overwrite=True) call invokes the fetch
\* and replaces the stored entry, whatever the file held before; the old data
\* is gone and a following make_request(u, overwrite=False) returns the newly
\* fetched data.
C4_OverwriteAlwaysReplaces ==
  [][/\ last'.overwrite
          => /\ last'.fetched = 1
             /\ \E d \in Data :
                  /\ last'.response = Fetched(d)
                  /\ cache'[CalledFile] = File(json_dump(d))
     /\ (last.called /\ last.overwrite /\ last'.url = last.url
           /\ ~last'.overwrite)
          => /\ last'.fetched = 0
             /\ last'.ret = Return(last.response.val)]_vars

\* C4, amended: every make_request(u, overwrite=True) call invokes the fetch
\* and, when the fetch returns data, replaces the stored entry, whatever the
\* file held before (nothing, an entry, a corrupt entry): the file then holds
\* the text of the new data alone and a following
\* make_request(u, overwrite=False) returns the new data.
C4_OverwriteReplacesOnSuccess ==
  [][/\ last'.overwrite
          => /\ last'.fetched = 1
             /\ last'.response.ok
                  => /\ cache'[CalledFile] = File(json_dump(last'.response.val))
                     /\ last'.ret = Return(last'.response.val)
     /\ (last.called /\ last.overwrite /\ last.response.ok
           /\ last'.url = last.url /\ ~last'.overwrite)
          => /\ last'.fetched = 0
             /\ last'.ret = Return(last.response.val)]_vars

C4_Witness ==
  /\ last.called
  /\ last.overwrite
  /\ last.prior = "corrupt"
  /\ last.fetched = 1
  /\ last.ret.kind = "return"
  /\ cache[filename(last.url)] = File(json_dump(last.response.val))

\* C5: when the fetch fails (on a miss, or with overwrite=True over an
\* existing entry) the call raises the fetch's error and every file is as it
\* was before the call: no entry is created, none is changed.
C5_FailedFetchLeavesCache ==
  [][(last'.fetched = 1 /\ ~last'.response.ok)
       => /\ last'.ret = Raise(last'.response.err)
          /\ cache' = cache]_vars

C5_Witness ==
  /\ last.called
  /\ last.overwrite
  /\ last.prior = "parseable"
  /\ last.fetched = 1
  /\ ~last.response.ok
  /\ last.ret.kind = "raise"
  /\ file_kind(cache[filename(last.url)]) = "parseable"

\* C6: a make_request(u, overwrite=False) call that finds an entry it cannot
\* parse raises a decode error, invokes no fetch and leaves every file as it
\* was, the corrupt one included.
C6_CorruptEntryRaises ==
  [][(/\ ~last'.overwrite
      /\ isfile(cache_dir, cache, CalledFile)
      /\ file_kind(cache[CalledFile]) = "corrupt")
       => /\ last'.ret = Raise("JSONDecodeError")
          /\ last'.fetched = 0
          /\ cache' = cache]_vars

C6_Witness ==
  /\ last.called
  /\ ~last.overwrite
  /\ last.prior = "corrupt"
  /\ last.ret = Raise("JSONDecodeError")
  /\ file_kind(cache[filename(last.url)]) = "corrupt"

\* C9: from the same state, with the same url, overwrite and answer of the
\* remote, the call with verbose=True and the call with verbose=False invoke
\* the fetch the same number of times, return the same data or raise the same
\* error, and leave the same directory and files.
C9_VerboseOnlyPrints ==
  last.called =>
    twin = [cache_dir |-> cache_dir, cache |-> cache,
            fetched |-> last.fetched, ret |-> last.ret]

C9_Witness ==
  /\ last.called
  /\ last.verbose
  /\ last.out # <<>>
  /\ last.prior = "parseable"
  /\ ~last.overwrite
  /\ twin.ret = last.ret
  /\ twin.cache = cache

\* C10: a file that exists before a call exists after it, and its contents
\* differ only when the call had overwrite=True and a url whose path is that
\* file.
C10_EntriesPersist ==
  [][\A fn \in Filenames :
       cache[fn].exists
         => /\ cache'[fn].exists
            /\ cache'[fn] # cache[fn]
                 => (last'.overwrite /\ CalledFile = fn)]_vars

C10_Witness ==
  /\ last.called
  /\ last.overwrite
  /\ last.ret.kind = "return"
  /\ \E fn \in Filenames :
       /\ fn # filename(last.url)
       /\ cache[fn].exists

\* C11: a call made while cache/ does not exist creates the directory and,
\* when the fetch returns data, writes the entry and returns the data; after
\* every call the directory exists.
C11_DirectoryCreated ==
  [][/\ cache_dir'
     /\ ~cache_dir
          => /\ last'.made_dir
             /\ last'.fetched = 1
             /\ last'.response.ok
                  => /\ last'.ret = Return(last'.response.val)
                     /\ cache'[CalledFile] = File(json_dump(last'.response.val))]_vars

C11_Witness ==
  /\ last.called
  /\ last.made_dir
  /\ cache_dir
  /\ last.ret.kind = "return"
  /\ cache[filename(last.url)] = File(json_dump(last.ret.val))

\* C14: on the fetch path with verbose=True the notice is "Overwriting cache"
\* exactly when overwrite is true and the file existed before the call, and
\* "Cache Miss" exactly when the file did not exist (overwrite=True on a url
\* without an entry included).
C14_NoticeTellsPriorEntry ==
  [][(last'.verbose /\ last'.fetched = 1 /\ last'.response.ok)
       => last'.out =
            <<Notice(IF last'.overwrite /\ isfile(cache_dir, cache, CalledFile)
                       THEN "Overwriting cache"
                       ELSE "Cache Miss",
                     last'.url)>>]_vars

\* C15: with verbose=True the cache-hit notice is printed only by calls that
\* go on to return the parsed data; a call that raises a decode error on a
\* corrupt entry prints no hit notice.
C15_HitNoticeAfterParse ==
  (last.called /\ last.ret = Raise("JSONDecodeError")) => last.out = <<>>

\* C17: a call for url u leaves the file of every other url v as it was, so
\* that what calls for v are served from was fetched for v.
C17_OtherUrlsUntouched ==
  [][\A v \in URLs :
       v # last'.url => cache'[filename(v)] = cache[filename(v)]]_vars

-----------------------------------------------------------------------------
(* Two callers running make_request at the same time, cache.py:13-37 line  *)
(* by line.  Nothing in make_request locks the directory or the file, so   *)
(* the steps of the two calls interleave freely.  Each caller has its own  *)
(* file object: open(filename, 'w') truncates the file and starts at       *)
(* offset 0, and the text reaches the file in one or more writes at the    *)
(* caller's own offset.  The notices are left out (verbose=False).         *)

Procs == {"p", "q"}

\* pc: the line the caller is about to run
Caller(url, overwrite) ==
  [pc |-> "exists", url |-> url, overwrite |-> overwrite,
   response |-> NotAsked, fetched |-> 0, off |-> 0, ret |-> Raise("none")]

\* file.write(chunk) at offset off of a file holding bytes; a gap left by a
\* truncation in between reads as NUL
write_at(bytes, off, chunk) ==
  LET padded == IF Len(bytes) < off
                  THEN bytes \o [i \in 1..(off - Len(bytes)) |-> "NUL"]
                  ELSE bytes
  IN  SubSeq(padded, 1, off) \o chunk
        \o SubSeq(padded, off + Len(chunk) + 1, Len(padded))

\* Entries written completely by earlier calls
CompleteFiles == {NoFile} \cup {File(json_dump(d)) : d \in Data}

InitConc ==
  /\ cache_dir \in BOOLEAN
  /\ cache \in [Filenames -> CompleteFiles]
  /\ ~cache_dir => \A fn \in Filenames : cache[fn] = NoFile
  /\ proc \in [Procs -> {Caller(u, o) : u \in URLs, o \in BOOLEAN}]
  /\ hist = [old |-> cache, last_writer |-> "none"]
  /\ pl = NoPlayerCall
  /\ last = NoCall
  /\ twin = NoTwin
  /\ watch = <<>>
  /\ fetches = 0
  /\ fetched_ok = 0
  /\ miss = NoMiss
  /\ replaced = FALSE
  /\ enc = EncIdle

Sequential == <<last, twin, watch, fetches, fetched_ok, miss, replaced, enc, pl>>

\* cache.py:16: if not os.path.exists('cache/')
PathExists(p) ==
  /\ proc[p].pc = "exists"
  /\ proc' = [proc EXCEPT ![p].pc = IF cache_dir THEN "isfile" ELSE "makedirs"]
  /\ UNCHANGED <<cache_dir, cache, hist, Sequential>>

\* cache.py:17: os.makedirs('cache/') raises FileExistsError when the
\* directory has appeared since the test
MakeDirs(p) ==
  /\ proc[p].pc = "makedirs"
  /\ IF cache_dir
       THEN /\ proc' = [proc EXCEPT ![p].pc = "done",
                                    ![p].ret = Raise("FileExistsError")]
            /\ cache_dir' = cache_dir
       ELSE /\ proc' = [proc EXCEPT ![p].pc = "isfile"]
            /\ cache_dir' = TRUE
  /\ UNCHANGED <<cache, hist, Sequential>>

\* cache.py:20: if os.path.isfile(filename) and not overwrite
IsFile(p) ==
  /\ proc[p].pc = "isfile"
  /\ proc' = [proc EXCEPT ![p].pc =
                IF cache_hit(cache_dir, cache, filename(proc[p].url),
                             proc[p].overwrite)
                  THEN "load" ELSE "fetch"]
  /\ UNCHANGED <<cache_dir, cache, hist, Sequential>>

\* cache.py:23-24: open(filename) and json.load(f)
Load(p) ==
  /\ proc[p].pc = "load"
  /\ \E r \in {hit_path(cache_dir, cache, filename(proc[p].url), proc[p].url,
                        FALSE)} :
       proc' = [proc EXCEPT ![p].pc = "done", ![p].ret = r.ret]
  /\ UNCHANGED <<cache_dir, cache, hist, Sequential>>

\* cache.py:27: response = requests.get(url).json()
Fetch(p, response) ==
  /\ proc[p].pc = "fetch"
  /\ proc' = [proc EXCEPT
                ![p].fetched = 1,
                ![p].response = response,
                ![p].pc = IF response.ok THEN "open" ELSE "done",
                ![p].ret = IF response.ok THEN @ ELSE Raise(response.err)]
  /\ UNCHANGED <<cache_dir, cache, hist, Sequential>>

\* cache.py:35: open(filename, 'w') creates or truncates the file
Open(p) ==
  /\ proc[p].pc = "open"
  /\ cache' = [cache EXCEPT ![filename(proc[p].url)] = File(<<>>)]
  /\ proc' = [proc EXCEPT ![p].pc = "dump", ![p].off = 0]
  /\ UNCHANGED <<cache_dir, hist, Sequential>>

\* cache.py:36: json.dump(response, f); the next n tokens of the text reach
\* the file, the last of them when the file is closed
Dump(p, n) ==
  /\ proc[p].pc = "dump"
  /\ \E text \in {json_dump(proc[p].response.val)}, fn \in {filename(proc[p].url)} :
       /\ proc[p].off + n <= Len(text)
       /\ cache' = [cache EXCEPT ![fn] =
                      File(write_at(@.bytes, proc[p].off,
                                    SubSeq(text, proc[p].off + 1, proc[p].off + n)))]
       /\ proc' = IF proc[p].off + n = Len(text)
                    THEN [proc EXCEPT ![p].pc = "done", ![p].off = @ + n,
                                      ![p].ret = Return(proc[p].response.val)]
                    ELSE [proc EXCEPT ![p].off = @ + n]
  /\ hist' = [hist EXCEPT !.last_writer = p]
  /\ UNCHANGED <<cache_dir, Sequential>>

\* the longest text json.dump writes
MaxText == 2 * MaxItems + 2

NextConc ==
  \E p \in Procs :
    \/ PathExists(p)
    \/ MakeDirs(p)
    \/ IsFile(p)
    \/ Load(p)
    \/ \E response \in Responses : Fetch(p, response)
    \/ Open(p)
    \/ \E n \in 1..MaxText : Dump(p, n)

SpecConc == InitConc /\ [][NextConc]_vars

-----------------------------------------------------------------------------
(* Claims about concurrent callers *)

\* C12: when two calls run while cache/ does not exist, the test and creation
\* of the directory fails neither: a caller that finds the directory created
\* by the other goes on instead of raising an "already exists" error.
C12_DirectoryRaceHarmless ==
  \A p \in Procs : proc[p].ret # Raise("FileExistsError")

\* both callers ran make_request(u, overwrite=False) for the same u, found
\* no entry, fetched data and are done
BothMissed ==
  /\ \A p \in Procs :
       /\ proc[p].pc = "done"
       /\ ~proc[p].overwrite
       /\ proc[p].fetched = 1
       /\ proc[p].response.ok
  /\ \A p, q \in Procs : proc[p].url = proc[q].url

\* C13: two concurrent make_request(u, overwrite=False) calls on a url with
\* no entry can both miss and both fetch; whenever they have, the entry holds
\* exactly the data of the call that wrote last once both are done, and each
\* call returned the data it fetched itself.
C13_LastWriterWins ==
  BothMissed =>
    /\ \A p \in Procs : proc[p].ret = Return(proc[p].response.val)
    /\ \A p \in Procs :
         cache[filename(proc[p].url)] =
           File(json_dump(proc[hist.last_writer].response.val))

\* C18: a make_request(u, overwrite=False) call running while another call
\* writes the entry for u misses, or returns the complete old data, or
\* returns the complete new data; it never finds the file empty or partly
\* written and never raises a decode error.
C18_ReaderSeesWholeEntry ==
  \A p, q \in Procs :
    (/\ p # q
     /\ proc[p].pc = "done"
     /\ ~proc[p].overwrite
     /\ proc[p].fetched = 0
     /\ filename(proc[q].url) = filename(proc[p].url))
      => /\ proc[p].ret # Raise("JSONDecodeError")
         /\ proc[p].ret.kind = "return"
              => \/ hist.old[filename(proc[p].url)] = File(json_dump(proc[p].ret.val))
                 \/ /\ proc[q].response.ok
                    /\ proc[p].ret.val = proc[q].response.val

-----------------------------------------------------------------------------
(* players.py: statistics of one player, season by season, through the     *)
(* cache.  A response stands for response['stats'][0]['splits']: [] is a   *)
(* season without statistics.  The notices are left out (verbose=False).   *)

\* range(1917, 2018), players.py:102, cut to the first NumSeasons seasons
FirstYear == 1917

NumSeasons == 2

LastYear == FirstYear + NumSeasons - 1

nhl_years == FirstYear..LastYear

\* players.py:35-36, the url of one season of the player
player_url(year) ==
  <<"https", ":", "/", "/", "statsapi.web.nhl.com", "/", "api", "/", "v1", "/",
    "people", "/", "player_id", "/", "stats", "?",
    "stats=statsSingleSeason&season=", ToString(year), ToString(year + 1)>>

PlayerFilenames == {filename(player_url(y)) : y \in nhl_years}

\* response['stats'][0]['splits'] of one season: no split, or the one split
\* of that season (the code reads splits[0] only), or the request fails
SeasonResponses ==
  {Fetched(d) : d \in {s \in Data : Len(s) <= 1}}
    \cup {Failed(e) : e \in FetchErrors}

\* what the remote answers for each season while one call runs
Remotes == [nhl_years -> SeasonResponses]

\* The element of a one-element set
Only(S) == CHOOSE x \in S : TRUE

\* players.py:39-43 applied to the outcome r of make_request
check_stats(r) ==
  IF r.ret.kind = "raise" THEN r
  ELSE IF Len(r.ret.val) = 0
    THEN [r EXCEPT !.ret = Raise("UnknownPlayerException")]
  ELSE [r EXCEPT !.ret = Return(<<r.ret.val[1]>>)]

\* get_player_statistics_by_year(raw=True), players.py:24-47
get_player_statistics_by_year(dir, files, year, overwrite, verbose, response) ==
  Only({check_stats(r) :
          r \in {make_request(dir, files, player_url(year), overwrite,
                              verbose, response)}})

RECURSIVE active_years_break(_, _, _, _, _, _, _, _)
\* active_years_loop leaving the loop at the first season without statistics
\* (except UnknownPlayerException: break)
active_years_break(dir, files, year, years, fetched, overwrite, verbose, remote) ==
  IF year > LastYear
    THEN [cache_dir |-> dir, cache |-> files, fetched |-> fetched,
          ret |-> [kind |-> "return", val |-> years, err |-> "none"]]
    ELSE Only({
      IF r.ret.kind = "return"
        THEN active_years_break(r.cache_dir, r.cache, year + 1,
                                Append(years, year), fetched + r.fetched,
                                overwrite, verbose, remote)
      ELSE IF r.ret.err = "UnknownPlayerException"
        THEN [cache_dir |-> r.cache_dir, cache |-> r.cache,
              fetched |-> fetched + r.fetched,
              ret |-> [kind |-> "return", val |-> years, err |-> "none"]]
      ELSE [cache_dir |-> r.cache_dir, cache |-> r.cache,
            fetched |-> fetched + r.fetched, ret |-> r.ret] :
      r \in {get_player_statistics_by_year(dir, files, year, overwrite,
                                           verbose, remote[year])}})

RECURSIVE active_years_loop(_, _, _, _, _, _, _, _)
\* for year in nhl_years: ..., players.py:103-110, from season year on
active_years_loop(dir, files, year, years, fetched, overwrite, verbose, remote) ==
  IF year > LastYear
    THEN [cache_dir |-> dir, cache |-> files, fetched |-> fetched,
          ret |-> [kind |-> "return", val |-> years, err |-> "none"]]
    ELSE Only({
      IF r.ret.kind = "return"
        THEN active_years_loop(r.cache_dir, r.cache, year + 1,
                               Append(years, year), fetched + r.fetched,
                               overwrite, verbose, remote)
      ELSE IF r.ret.err = "UnknownPlayerException"
        THEN active_years_loop(r.cache_dir, r.cache, year + 1, years,
                               fetched + r.fetched, overwrite, verbose,
                               remote)
      ELSE [cache_dir |-> r.cache_dir, cache |-> r.cache,
            fetched |-> fetched + r.fetched, ret |-> r.ret] :
      r \in {get_player_statistics_by_year(dir, files, year, overwrite,
                                           verbose, remote[year])}})

\* get_player_active_years, players.py:89-110
get_player_active_years(dir, files, verbose, overwrite, remote) ==
  active_years_loop(dir, files, FirstYear, <<>>, 0, overwrite, verbose, remote)

RECURSIVE history_loop(_, _, _, _, _, _, _, _, _)
\* players.py:122-125 from the i-th active year on; pd.concat of no frames
\* raises ValueError
history_loop(dir, files, years, i, dfs, fetched, overwrite, verbose, remote) ==
  IF i > Len(years)
    THEN [cache_dir |-> dir, cache |-> files, fetched |-> fetched,
          ret |-> IF dfs = <<>>
                    THEN Raise("ValueError")
                    ELSE [kind |-> "return", val |-> dfs, err |-> "none"]]
    ELSE Only({
      IF r.ret.kind = "return"
        THEN history_loop(r.cache_dir, r.cache, years, i + 1,
                          Append(dfs, [season |-> years[i],
                                       stat |-> r.ret.val[1]]),
                          fetched + r.fetched, overwrite, verbose, remote)
        ELSE [cache_dir |-> r.cache_dir, cache |-> r.cache,
              fetched |-> fetched + r.fetched, ret |-> r.ret] :
      r \in {get_player_statistics_by_year(dir, files, years[i], overwrite,
                                           verbose, remote[years[i]])}})

\* get_player_statistics_complete_history, players.py:112-125: the active
\* years are looked up with verbose=False, overwrite=False
get_player_statistics_complete_history(dir, files, verbose, overwrite, remote) ==
  Only({
    IF a.ret.kind = "raise" THEN a
    ELSE history_loop(a.cache_dir, a.cache, a.ret.val, 1, <<>>, a.fetched,
                      overwrite, verbose, remote) :
    a \in {get_player_active_years(dir, files, FALSE, FALSE, remote)}})

\* An empty cache directory
FreshFiles == [fn \in PlayerFilenames |-> NoFile]

InitPlayers ==
  /\ cache_dir \in BOOLEAN
  /\ cache \in [PlayerFilenames -> {NoFile, File(<<>>)}]
  /\ ~cache_dir => cache = FreshFiles
  /\ pl = NoPlayerCall
  /\ proc = NoProcs
  /\ hist = NoHist
  /\ last = NoCall
  /\ twin = NoTwin
  /\ watch = <<>>
  /\ fetches = 0
  /\ fetched_ok = 0
  /\ miss = NoMiss
  /\ replaced = FALSE
  /\ enc = EncIdle

NotPlayers == <<last, twin, watch, fetches, fetched_ok, miss, replaced, enc,
                proc, hist>>

\* call c was get_player_active_years(overwrite=False) and returned
CompletedActiveYears(c) ==
  c.op = "active_years" /\ ~c.overwrite /\ c.ret.kind = "return"

StatsByYear(year, overwrite, response) ==
  /\ \E r \in {get_player_statistics_by_year(cache_dir, cache, year,
                                             overwrite, FALSE, response)} :
       /\ cache_dir' = r.cache_dir
       /\ cache' = r.cache
       /\ pl' = [op |-> "statistics_by_year", overwrite |-> overwrite,
                 fetched |-> r.fetched, ret |-> r.ret, fresh |-> r.ret,
                 again |-> FALSE]
  /\ UNCHANGED NotPlayers

ActiveYears(overwrite, remote) ==
  /\ \E r \in {get_player_active_years(cache_dir, cache, FALSE, overwrite,
                                       remote)} :
       /\ cache_dir' = r.cache_dir
       /\ cache' = r.cache
       /\ pl' = [op |-> "active_years", overwrite |-> overwrite,
                 fetched |-> r.fetched, ret |-> r.ret, fresh |-> r.ret,
                 again |-> CompletedActiveYears(pl)]
  /\ UNCHANGED NotPlayers

\* fresh: what the same call, with the same answers of the remote, returns
\* from an empty cache directory
CompleteHistory(overwrite, remote) ==
  /\ \E r \in {get_player_statistics_complete_history(cache_dir, cache, FALSE,
                                                      overwrite, remote)},
        f \in {get_player_statistics_complete_history(FALSE, FreshFiles,
                                                      FALSE, overwrite,
                                                      remote)} :
       /\ cache_dir' = r.cache_dir
       /\ cache' = r.cache
       /\ pl' = [op |-> "complete_history", overwrite |-> overwrite,
                 fetched |-> r.fetched, ret |-> r.ret, fresh |-> f.ret,
                 again |-> FALSE]
  /\ UNCHANGED NotPlayers

NextPlayers ==
  \/ \E year \in nhl_years, overwrite \in BOOLEAN,
        response \in SeasonResponses :
       StatsByYear(year, overwrite, response)
  \/ \E overwrite \in BOOLEAN, remote \in Remotes :
       ActiveYears(overwrite, remote)
  \/ \E overwrite \in BOOLEAN, remote \in Remotes :
       CompleteHistory(overwrite, remote)

SpecPlayers == InitPlayers /\ [][NextPlayers]_vars

\* The seasons whose entry holds statistics, in ascending order
RECURSIVE seasons_with_stats(_, _)
seasons_with_stats(files, year) ==
  IF year > LastYear THEN <<>>
  ELSE LET ld == json_load(files[filename(player_url(year))].bytes)
       IN  (IF ld.ok /\ Len(ld.val) > 0 THEN <<year>> ELSE <<>>)
             \o seasons_with_stats(files, year + 1)

\* C16: get_player_statistics_complete_history(overwrite=True) returns what
\* the answers of the remote during the call determine, whatever entries the
\* cache held before: when it returns, and the call made on an empty cache
\* with the same answers returns too, both return the same seasons.
C16_OverwriteIgnoresPriorCache ==
  (/\ pl.op = "complete_history"
   /\ pl.overwrite
   /\ pl.ret.kind = "return"
   /\ pl.fresh.kind = "return") => pl.ret = pl.fresh

\* C19: once get_player_active_years(overwrite=False) has returned, every
\* season has an entry, also the seasons without statistics, and the years
\* returned are the seasons whose entry holds statistics, ascending; a second
\* run then fetches nothing and returns the same years.
C19_SecondRunFromCache ==
  [][CompletedActiveYears(pl')
       => /\ cache_dir'
          /\ \A y \in nhl_years :
               file_kind(cache'[filename(player_url(y))]) = "parseable"
          /\ pl'.ret.val = seasons_with_stats(cache', FirstYear)
          /\ \A i, j \in 1..Len(pl'.ret.val) :
               i < j => pl'.ret.val[i] < pl'.ret.val[j]
          /\ CompletedActiveYears(pl)
               => /\ pl'.fetched = 0
                  /\ pl'.ret = pl.ret]_vars

C19_Witness ==
  /\ CompletedActiveYears(pl)
  /\ pl.again
  /\ pl.fetched = 0
  /\ pl.ret.val # <<>>
  /\ \E y \in nhl_years :
       cache[filename(player_url(y))] = File(json_dump(<<>>))

====
